---- MODULE Spec2Model ----
(***************************************************************************)
(* Model of the CleverSpa API client (custom_components/clevererspa):      *)
(* the binding registry, the local state cache, fetch_data's timestamp     *)
(* reconciliation, the five control commands with their optimistic cache   *)
(* writes, the heater-off cooldown and the polling coordinator.            *)
(*                                                                         *)
(* The client runs on one asyncio loop: a coroutine runs without           *)
(* interruption from one await of a remote call (or of the sleep) to the   *)
(* next.  Every action below is one such uninterrupted stretch.            *)
(***************************************************************************)
EXTENDS Integers, Sequences, FiniteSets, TLC

\* ---------------------------------------------------------------- bounds
TicksPerSec == 2        \* clock resolution: time() is a float, int(time()) truncates
MaxPolls == 2           \* polling ticks started in one behaviour

\* ------------------------------------------------------ program constants
_CONNECTIVITY_TIMEOUT == 1000
COOLDOWN_SLEEP == 30

\* ------------------------------------------------------------ input sets
Devices == {"d1", "d2"}
CmdTasks == {"c1", "c2"}
Poller == "poll"
Tasks == {Poller} \cup CmdTasks

\* device lists the bindings endpoint may return (order of the JSON array)
BindingLists == {<<>>, <<"d1">>, <<"d1", "d2">>}
SoloLists == {<<>>, <<"d1">>}       \* an account with at most one spa
MultiLists == BindingLists \cup {<<"d2">>}

Stamps == {0, 1, 2}                 \* updated_at values of the server, seconds
TempValues == {30, 35}
Bits == {0, 1}
\* attribute blocks the status endpoint may return
Attrs == {a \in [Current_temperature : {30}, Temperature_setup : TempValues,
                 Heater : Bits, Filter : Bits, Bubble : Bits, Time_filter : {0}] :
            /\ a.Heater = a.Bubble
            /\ (a.Heater = 1 => a.Filter = 1)
            /\ (a.Temperature_setup = 35) = (a.Heater = 1)}
Responses == [updated_at : Stamps, attr : Attrs]
\* responses whose attributes vary independently, with values besides 0 and 1
WideAttrs == [Current_temperature : {29, 30}, Temperature_setup : TempValues,
              Heater : {0, 1, 2}, Filter : Bits, Bubble : Bits, Time_filter : {0}]
WideResponses == [updated_at : {0, 1}, attr : WideAttrs]
NoEvent == [kind |-> "none"]

\* outcome of one remote call: a 2xx answer, a non-2xx/transport error, or
\* the async_timeout expiring
Outcomes == {"ok", "error", "timeout"}

\* instants (in clock ticks) at which the model looks at the clock
Secs(n) == n * TicksPerSec
EarlyClock == {0, 1, Secs(1)}
CoolClock == {Secs(COOLDOWN_SLEEP), Secs(COOLDOWN_SLEEP + 1)}

Ops == {"heat", "filter", "locked", "bubbles", "temp"}
ArgsOf(o) == IF o = "temp" THEN TempValues ELSE BOOLEAN

\* the repr of a CleverSpaDeviceStatus interpolated into a control URL
StatusRepr == "CleverSpaDeviceStatus(...)"

None == [none |-> TRUE]
Unset == "unset"                    \* attribute not present on the object
Bound(l) == [devs |-> l]            \* a bindings dict, keys in insertion order
Wrap(f) == [reports |-> f]          \* a mapping returned to the coordinator
NoReturn == [task |-> "none"]
NoWrite == [op |-> "none"]
ServerWrite == [op |-> "server"]

\* outcome of a request of get_user_token: a 2xx answer, a non-2xx answer
\* with an error body, a transport failure, or the timeout expiring
AuthOutcomes == {"ok", "rejected", "transport", "timeout"}

NoToken == [token |-> "none"]
Token == [token |-> "token", expiry |-> "expire_at"]   \* CleverSpaUserToken
NoCause == [type |-> "none", message |-> ""]
HttpReason == "Bad Request"             \* reason phrase of the status line
ProviderMessage == "EMAIL_NOT_FOUND"    \* error.message of the error body

\* async_setup_entry with its client and coordinator constructed over a
\* stored token
SetupConstructed ==
    [pc |-> "constructed", had |-> TRUE, stored |-> Token,
     trail |-> <<"CleverSpaApi", "CleverSpaUpdateCoordinator">>,
     cause |-> NoCause]

VARIABLES
    now,        \* the clock, in ticks
    bindings,   \* CleverSpaApi._bindings: None or Bound(sequence of device ids)
    cache,      \* CleverSpaApi._local_state_cache: device id -> status or None
    data,       \* coordinator.data: None or Wrap(device id -> reference or None)
    pc,         \* position of each coroutine
    op, did, val, seq,   \* the command a command task runs, and its number
    todo,       \* fetch_data: devices of the bindings iterator still to visit
    results,    \* fetch_data: the results dict, device id -> reference or None
    exc,        \* the exception a task ended with, or "none"
    wake,       \* instant at which asyncio.sleep(30) returns
    posts,      \* every control POST issued, in order
    ncmds, npolls,
    lastWrite,  \* per device: who wrote the cache entry last
    ev,         \* what the step just taken handled: a status or a POST answer
    shown,      \* per device: what its entities last showed as availability
    overlap,    \* per command: it returned inside the cooldown sleep of an
                \* earlier set_heat(off) for the same device
    called,     \* fetch_data in progress: the registry as it was at the call
    asked,      \* fetch_data awaiting a GET: how many control POSTs had been
                \* issued when the GET was sent
    ret,        \* the mapping a fetch_data call returned in the step just taken
    setup       \* async_setup_entry: position, config entry, what it created

vars == <<now, bindings, cache, data, pc, op, did, val, seq, todo, results,
          exc, wake, posts, ncmds, npolls, lastWrite, ev, shown,
          overlap, called, asked, ret, setup>>

\* ------------------------------------------------------------- helpers
\* int(time())
IntTime(t) == t \div TicksPerSec

\* A reference to a status object.  The object held by cache[d] is the only
\* one a command can mutate; once fetch_data replaces cache[d] the old object
\* keeps its last values for ever.
Live == [live |-> TRUE]
Frozen(s) == [live |-> FALSE, status |-> s]
Deref(ref, d) == IF ref.live THEN cache[d] ELSE ref.status
Freeze(ref, d) == IF ref # None /\ ref.live THEN Frozen(cache[d]) ELSE ref

NoResults == [d \in Devices |-> None]

\* (variant: a status exactly as old as the window still counts as online)
OnlineInclusive(s, t) == Secs(s.timestamp) >= t - Secs(_CONNECTIVITY_TIMEOUT)

\* CleverSpaDeviceStatus.online, evaluated at clock instant t
Online(s, t) == Secs(s.timestamp) > t - Secs(_CONNECTIVITY_TIMEOUT)

\* CleverSpaEntity.device_status / available
DeviceStatus(d) ==
    IF data = None THEN None
    ELSE IF data.reports[d] = None THEN None ELSE Deref(data.reports[d], d)
Available(d) == DeviceStatus(d) # None /\ Online(DeviceStatus(d), now)

\* (variant: the heater and bubble flags are taken from each other's attribute)
ParseStatusSwapped(r) ==
    [timestamp |-> r.updated_at,
     temp_now |-> r.attr.Current_temperature,
     temp_set |-> r.attr.Temperature_setup,
     temp_set_unit |-> "CELSIUS",
     heat_power |-> (r.attr.Bubble = 1),
     filter_power |-> (r.attr.Filter = 1),
     bubble_power |-> (r.attr.Heater = 1),
     filter_age |-> (r.attr.Time_filter = 0),
     errors |-> <<>>,
     wave_power |-> Unset,
     locked |-> Unset]

\* the CleverSpaDeviceStatus built from a server response
ParseStatus(r) ==
    [timestamp |-> r.updated_at,
     temp_now |-> r.attr.Current_temperature,
     temp_set |-> r.attr.Temperature_setup,
     temp_set_unit |-> "CELSIUS",
     heat_power |-> (r.attr.Heater = 1),
     filter_power |-> (r.attr.Filter = 1),
     bubble_power |-> (r.attr.Bubble = 1),
     filter_age |-> (r.attr.Time_filter = 0),
     errors |-> <<>>,
     wave_power |-> Unset,
     locked |-> Unset]

\* (variant: the cached timestamp is never loaded)
LocalTimestampZero(c) == 0

\* local_update_timestamp: the cached timestamp, 0 without an entry
LocalTimestamp(c) == IF c = None THEN 0 ELSE c.timestamp

\* (variant: every response wins)
AcceptsAlways(c, r) == TRUE

\* (variant: only a strictly newer response wins)
AcceptsStrict(c, r) == r.updated_at > LocalTimestamp(c)

\* fetch_data's decision for one device
Accepts(c, r) == r.updated_at >= LocalTimestamp(c)

\* (variant: an accepted response updates the cached object in place, so
\* attributes a command added to it stay)
ReconcileInPlace(c, r) ==
    IF Accepts(c, r)
    THEN IF c = None THEN ParseStatus(r)
         ELSE [ParseStatus(r) EXCEPT !.wave_power = c.wave_power, !.locked = c.locked]
    ELSE c

\* (variant: the cache is not written while the loop runs)
ReconcileLate(c, r) == c

\* (variant: a rejected response drops the cache entry instead of itself)
ReconcileDrop(c, r) == IF Accepts(c, r) THEN ParseStatus(r) ELSE None

\* the cache entry fetch_data leaves for a device whose entry was c
Reconcile(c, r) == IF Accepts(c, r) THEN ParseStatus(r) ELSE c

\* the status the report of the device refers to: the object in the cache
ReportRef(c, r) == Live

\* a client and a coordinator that have not run yet
ClientInit ==
    /\ now = 0
    /\ bindings = None
    /\ cache = [d \in Devices |-> None]
    /\ data = None
    /\ pc = [t \in Tasks |-> "idle"]
    /\ op = [t \in CmdTasks |-> "none"]
    /\ did = [t \in CmdTasks |-> "none"]
    /\ val = [t \in CmdTasks |-> FALSE]
    /\ seq = [t \in CmdTasks |-> 0]
    /\ todo = [t \in Tasks |-> <<>>]
    /\ results = [t \in Tasks |-> NoResults]
    /\ exc = [t \in Tasks |-> "none"]
    /\ wake = [t \in CmdTasks |-> 0]
    /\ posts = <<>>
    /\ ncmds = 0
    /\ npolls = 0
    /\ lastWrite = [d \in Devices |-> NoWrite]
    /\ ev = NoEvent
    /\ shown = [d \in Devices |-> None]
    /\ overlap = [t \in CmdTasks |-> FALSE]
    /\ called = [t \in Tasks |-> None]
    /\ asked = [t \in Tasks |-> 0]
    /\ ret = NoReturn

\* the config entry as async_setup_entry finds it: with or without a token
InitSetup ==
    /\ ClientInit
    /\ setup \in {[pc |-> "entry", had |-> st # NoToken, stored |-> st,
                    trail |-> <<>>, cause |-> NoCause] : st \in {NoToken, Token}}

Init ==
    /\ ClientInit
    /\ setup = SetupConstructed

\* time passes
Tick(t) ==
    /\ t > now
    /\ now' = t
    /\ ev' = NoEvent /\ UNCHANGED <<shown, overlap>>
    /\ ret' = NoReturn /\ UNCHANGED <<called, asked, setup>>
    /\ UNCHANGED <<bindings, cache, data, pc, op, did, val, seq, todo, results,
                   exc, wake, posts, ncmds, npolls, lastWrite>>

\* ------------------------------------------------------------ fetch_data
\* where a task continues when its fetch_data returns
AfterFetchPc(t) ==
    IF t = Poller THEN "idle"
    ELSE IF op[t] = "heat" /\ val[t] = FALSE THEN "sleep" ELSE "done"

\* task t is a command inside the cooldown sleep of an earlier set_heat(off)
\* for the same device
InCooldownOfEarlier(t) ==
    \E u \in CmdTasks \ {t} :
        /\ pc[u] = "sleep" /\ now < wake[u]
        /\ did[u] = did[t] /\ seq[u] < seq[t]

\* the command of task t returns normally in this step
NoteReturn(t) ==
    overlap' = IF t # Poller /\ AfterFetchPc(t) = "done"
               THEN [overlap EXCEPT ![t] = InCooldownOfEarlier(t)]
               ELSE overlap

\* fetch_data returns `res` to task t: the coordinator stores the mapping,
\* set_heat(off) goes on to asyncio.sleep(30), the other commands return
Returned(t, res) ==
    /\ pc' = [pc EXCEPT ![t] = AfterFetchPc(t)]
    /\ todo' = [todo EXCEPT ![t] = <<>>]
    /\ data' = IF t = Poller THEN Wrap(res) ELSE data
    /\ NoteReturn(t)
    /\ wake' = IF t # Poller /\ AfterFetchPc(t) = "sleep"
               THEN [wake EXCEPT ![t] = now + COOLDOWN_SLEEP * TicksPerSec]
               ELSE wake

\* the keys of a mapping from device ids, and of a registry
Keys(m) == {d \in Devices : m[d] # None}
Range(l) == {l[i] : i \in 1..Len(l)}
Registered(b) == IF b = None THEN {} ELSE Range(b.devs)

\* what is known of a fetch_data call that returns: its caller, the keys of
\* the mapping it returns and the registry it was called with
Return(t, res, b) == [task |-> t, keys |-> Keys(res), registry |-> b]

\* (variant: the loop stops after the first device)
VisitedFirst(b) == <<Head(b.devs)>>

\* the devices the loop of fetch_data visits: the keys of the registry it
\* was called with, in insertion order
Visited(b) == b.devs

\* task t calls fetch_data while the registry is b: an empty or missing
\* registry returns at once, otherwise the first GET is awaited
StartFetch(t, b) ==
    IF b = None \/ b.devs = <<>>
    THEN /\ results' = [results EXCEPT ![t] = NoResults]
         /\ Returned(t, NoResults)
         /\ ret' = Return(t, NoResults, b)
         /\ UNCHANGED <<called, asked>>
    ELSE /\ results' = [results EXCEPT ![t] = NoResults]
         /\ pc' = [pc EXCEPT ![t] = "get"]
         /\ todo' = [todo EXCEPT ![t] = Visited(b)]
         /\ called' = [called EXCEPT ![t] = b]
         /\ asked' = [asked EXCEPT ![t] = Len(posts)]
         /\ ret' = NoReturn
         /\ UNCHANGED <<data, wake, overlap>>

\* (variant: the coordinator swallows the exception)
RaiseSilently(t, e) ==
    /\ pc' = [pc EXCEPT ![t] = IF t = Poller THEN "idle" ELSE "raised"]
    /\ exc' = [exc EXCEPT ![t] = IF t = Poller THEN "none" ELSE e]
    /\ todo' = [todo EXCEPT ![t] = <<>>]

\* a task ends with an exception; the coordinator turns every exception
\* into UpdateFailed and keeps its previous data
Raise(t, e) ==
    /\ pc' = [pc EXCEPT ![t] = IF t = Poller THEN "idle" ELSE "raised"]
    /\ exc' = [exc EXCEPT ![t] = IF t = Poller THEN "UpdateFailed" ELSE e]
    /\ todo' = [todo EXCEPT ![t] = <<>>]

\* a command of task u was invoked after the GET that task t awaits was sent
\* and has written the entry of device d
WroteSinceAsked(u, t, d) ==
    /\ did[u] = d
    /\ pc[u] \notin {"idle", "post"}
    /\ lastWrite[d] = [op |-> op[u], val |-> val[u]]
    /\ \E i \in 1..Len(posts) : posts[i].by = seq[u] /\ i > asked[t]

\* (variant: only the timeout raises)
GetFailsOnTimeoutOnly(outcome) == outcome = "timeout"

\* _do_get: a timeout and every answer but a 2xx one raise
GetFails(outcome) == outcome # "ok"

\* the answer of GET /app/devdata/{did}/latest arrives in fetch_data's loop
FetchStep(t, outcome, r) ==
    /\ pc[t] = "get"
    /\ LET d == Head(todo[t]) IN
       IF GetFails(outcome)
       THEN /\ Raise(t, outcome)
            /\ results' = [results EXCEPT ![t] = NoResults]
            /\ ev' = [kind |-> "get", task |-> t, did |-> d, outcome |-> outcome]
            /\ called' = [called EXCEPT ![t] = None]
            /\ asked' = [asked EXCEPT ![t] = 0]
            /\ ret' = NoReturn
            /\ UNCHANGED <<shown, overlap, setup>>
            /\ UNCHANGED <<now, bindings, cache, data, op, did, val, seq, wake,
                           posts, ncmds, npolls, lastWrite>>
       ELSE LET acc == Accepts(cache[d], r)
                res == [u \in Tasks |->
                          IF u = t THEN [results[t] EXCEPT ![d] = ReportRef(cache[d], r)]
                          ELSE IF acc
                               THEN [results[u] EXCEPT ![d] = Freeze(results[u][d], d)]
                               ELSE results[u]]
                dat == IF acc /\ data # None
                       THEN Wrap([data.reports EXCEPT ![d] = Freeze(data.reports[d], d)])
                       ELSE data
            IN /\ cache' = [cache EXCEPT ![d] = Reconcile(cache[d], r)]
               /\ lastWrite' = IF acc THEN [lastWrite EXCEPT ![d] = ServerWrite]
                               ELSE lastWrite
               /\ ev' = [kind |-> "status", task |-> t, did |-> d, resp |-> r,
                          outcome |-> outcome,
                          raced |-> \E u \in CmdTasks : WroteSinceAsked(u, t, d),
                          local |-> LocalTimestamp(cache[d]),
                          over |-> lastWrite[d].op,
                          report |-> res[t][d],
                          again |-> (ev.kind = "status" /\ ev.did = d /\ ev.resp = r)]
               /\ UNCHANGED <<shown, setup>>
               /\ IF Tail(todo[t]) = <<>>
                  THEN /\ pc' = [pc EXCEPT ![t] = AfterFetchPc(t)]
                       /\ todo' = [todo EXCEPT ![t] = <<>>]
                       /\ results' = [res EXCEPT ![t] = NoResults]
                       /\ data' = IF t = Poller THEN Wrap(res[t]) ELSE dat
                       /\ called' = [called EXCEPT ![t] = None]
                       /\ asked' = [asked EXCEPT ![t] = 0]
                       /\ ret' = Return(t, res[t], called[t])
                       /\ NoteReturn(t)
                       /\ wake' = IF t # Poller /\ AfterFetchPc(t) = "sleep"
                                  THEN [wake EXCEPT ![t] = now + COOLDOWN_SLEEP * TicksPerSec]
                                  ELSE wake
                  ELSE /\ todo' = [todo EXCEPT ![t] = Tail(todo[t])]
                       /\ results' = res
                       /\ data' = dat
                       /\ ret' = NoReturn
                       /\ UNCHANGED <<pc, wake, overlap, called>>
                       /\ asked' = [asked EXCEPT ![t] = Len(posts)]
               /\ UNCHANGED <<now, bindings, op, did, val, seq, exc, posts,
                              ncmds, npolls>>

\* ------------------------------------------------- polling coordinator
\* _async_update_data starts: refresh_bindings awaits GET /app/bindings
PollStart ==
    /\ pc[Poller] = "idle"
    /\ npolls < MaxPolls
    /\ npolls' = npolls + 1
    /\ pc' = [pc EXCEPT ![Poller] = "refresh"]
    /\ exc' = [exc EXCEPT ![Poller] = "none"]
    /\ ev' = NoEvent /\ UNCHANGED <<shown, overlap>>
    /\ ret' = NoReturn /\ UNCHANGED <<called, asked, setup>>
    /\ UNCHANGED <<now, bindings, cache, data, op, did, val, seq, todo, results,
                   wake, posts, ncmds, lastWrite>>

\* (variant: the devices of the response are added to the prior registry)
RefreshedMerged(b, list) ==
    IF b = None THEN Bound(list)
    ELSE Bound(b.devs \o SelectSeq(list, LAMBDA d : d \notin Range(b.devs)))

\* refresh_bindings: the registry built from the devices of the response
RefreshedBindings(b, list) == Bound(list)

\* the bindings answer arrives: the registry is replaced and fetch_data starts
RefreshDone(outcome, list) ==
    /\ pc[Poller] = "refresh"
    /\ ev' = [kind |-> "bindings", outcome |-> outcome,
               list |-> IF GetFails(outcome) THEN <<>> ELSE list]
    /\ UNCHANGED <<shown, setup>>
    /\ IF GetFails(outcome)
       THEN /\ Raise(Poller, outcome)
            /\ ret' = NoReturn
            /\ UNCHANGED <<bindings, data, results, wake, overlap, called, asked>>
       ELSE /\ bindings' = RefreshedBindings(bindings, list)
            /\ StartFetch(Poller, RefreshedBindings(bindings, list))
            /\ UNCHANGED exc
    /\ UNCHANGED <<now, cache, op, did, val, seq, posts, ncmds, npolls,
                   lastWrite>>

\* ------------------------------------------------------ control commands
\* the attribute a command puts in the body of its control POST
AttrOf(o) ==
    CASE o = "heat" -> "Heater"
      [] o = "filter" -> "Filter"
      [] o = "locked" -> "locked"
      [] o = "bubbles" -> "Bubble"
      [] o = "temp" -> "Temperature_setup"

WireValue(o, v) == IF o = "temp" THEN v ELSE IF v THEN 1 ELSE 0

\* (variant: turning the heater on leaves the filter flag alone)
MutateHeatOnly(c, v, ts) ==
    [c EXCEPT !.timestamp = ts, !.heat_power = v]

\* the optimistic write of each command into the cached status object
MutateHeat(c, v, ts) ==
    IF v THEN [c EXCEPT !.timestamp = ts, !.heat_power = TRUE, !.filter_power = TRUE]
    ELSE [c EXCEPT !.timestamp = ts, !.heat_power = FALSE]

MutateFilter(c, v, ts) ==
    IF v THEN [c EXCEPT !.timestamp = ts, !.filter_power = TRUE]
    ELSE [c EXCEPT !.timestamp = ts, !.filter_power = FALSE,
                   !.wave_power = "False", !.heat_power = FALSE]

MutateLocked(c, v, ts) ==
    [c EXCEPT !.timestamp = ts, !.locked = IF v THEN "True" ELSE "False"]

MutateBubbles(c, v, ts) ==
    [c EXCEPT !.timestamp = ts, !.filter_power = IF v THEN TRUE ELSE v]

\* (variant: the command removes the entry)
MutateTempDrop(c, v, ts) == None

\* (variant: the set point is written to the wrong attribute)
MutateTempNow(c, v, ts) ==
    [c EXCEPT !.timestamp = ts, !.temp_now = v]

MutateTemp(c, v, ts) ==
    [c EXCEPT !.timestamp = ts, !.temp_set = v]

Mutate(o, c, v, ts) ==
    CASE o = "heat" -> MutateHeat(c, v, ts)
      [] o = "filter" -> MutateFilter(c, v, ts)
      [] o = "locked" -> MutateLocked(c, v, ts)
      [] o = "bubbles" -> MutateBubbles(c, v, ts)
      [] o = "temp" -> MutateTemp(c, v, ts)

\* set_filter has no follow-up fetch
FetchesAfter(o) == o # "filter"

Post(by, target, attr, v) ==
    [by |-> by, target |-> target, attr |-> attr, val |-> v, at |-> now]

\* (variant: raise_for_status returns after reading the error body)
PostFailsOnTimeoutOnly(outcome) == outcome = "timeout"

\* _do_post with raise_for_status: every answer but a 2xx one raises
PostFails(outcome) == outcome # "ok"

\* (variant: the command looks its entry up before it sends anything)
CmdStartChecked(t, o, d, v) ==
    /\ pc[t] = "idle"
    /\ ncmds' = ncmds + 1
    /\ seq' = [seq EXCEPT ![t] = ncmds + 1]
    /\ op' = [op EXCEPT ![t] = o]
    /\ did' = [did EXCEPT ![t] = d]
    /\ val' = [val EXCEPT ![t] = v]
    /\ exc' = [exc EXCEPT ![t] = IF cache[d] = None THEN "KeyError" ELSE "none"]
    /\ pc' = [pc EXCEPT ![t] = IF cache[d] = None THEN "raised" ELSE "post"]
    /\ ev' = NoEvent /\ UNCHANGED <<shown, overlap>>
    /\ ret' = NoReturn /\ UNCHANGED <<called, asked, setup>>
    /\ results' = [results EXCEPT ![t] = NoResults]
    /\ posts' = IF cache[d] = None THEN posts
                ELSE Append(posts, Post(ncmds + 1, d, AttrOf(o), WireValue(o, v)))
    /\ UNCHANGED <<now, bindings, cache, data, todo, wake, npolls, lastWrite>>

\* a command is invoked: it runs up to the await of its control POST
CmdStart(t, o, d, v) ==
    /\ pc[t] = "idle"
    /\ ncmds' = ncmds + 1
    /\ seq' = [seq EXCEPT ![t] = ncmds + 1]
    /\ op' = [op EXCEPT ![t] = o]
    /\ did' = [did EXCEPT ![t] = d]
    /\ val' = [val EXCEPT ![t] = v]
    /\ exc' = [exc EXCEPT ![t] = "none"]
    /\ pc' = [pc EXCEPT ![t] = "post"]
    /\ ev' = NoEvent /\ UNCHANGED <<shown, overlap>>
    /\ ret' = NoReturn /\ UNCHANGED <<called, asked, setup>>
    /\ results' = [results EXCEPT ![t] = NoResults]
    /\ posts' = Append(posts, Post(ncmds + 1, d, AttrOf(o), WireValue(o, v)))
    /\ UNCHANGED <<now, bindings, cache, data, todo, wake, npolls, lastWrite>>

\* the answer of the control POST arrives (_do_post raises on a timeout and
\* on every non-2xx status); on success the cached object is mutated in
\* place and the follow-up fetch_data starts
PostDone(t, outcome) ==
    /\ pc[t] = "post"
    /\ ev' = [kind |-> "post", task |-> t, outcome |-> outcome,
               before |-> cache[did[t]]]
    /\ UNCHANGED <<shown, setup>>
    /\ LET d == did[t] IN
       IF PostFails(outcome)
       THEN /\ Raise(t, outcome)
            /\ ret' = NoReturn
            /\ UNCHANGED <<cache, data, results, wake, lastWrite, overlap, called, asked>>
       ELSE IF cache[d] = None
       THEN /\ Raise(t, "KeyError")
            /\ ret' = NoReturn
            /\ UNCHANGED <<cache, data, results, wake, lastWrite, overlap, called, asked>>
       ELSE /\ cache' = [cache EXCEPT ![d] = Mutate(op[t], cache[d], val[t], IntTime(now))]
            /\ lastWrite' = [lastWrite EXCEPT ![d] = [op |-> op[t], val |-> val[t]]]
            /\ IF FetchesAfter(op[t])
               THEN StartFetch(t, bindings)
               ELSE /\ pc' = [pc EXCEPT ![t] = "done"]
                    /\ overlap' = [overlap EXCEPT ![t] = InCooldownOfEarlier(t)]
                    /\ ret' = NoReturn
                    /\ UNCHANGED <<todo, results, data, wake, called, asked>>
            /\ UNCHANGED exc
    /\ UNCHANGED <<now, bindings, op, did, val, seq, posts, ncmds, npolls>>

\* set_heat(off): asyncio.sleep(30) is over; set_filter is called with the
\* cached status object in the place of the device id and awaits its POST
Wake(t) ==
    /\ pc[t] = "sleep"
    /\ now >= wake[t]
    /\ pc' = [pc EXCEPT ![t] = "post2"]
    /\ ev' = NoEvent /\ UNCHANGED <<shown, overlap>>
    /\ ret' = NoReturn /\ UNCHANGED <<called, asked, setup>>
    /\ posts' = Append(posts, Post(seq[t], StatusRepr, AttrOf("filter"),
                                  WireValue("filter", FALSE)))
    /\ UNCHANGED <<now, bindings, cache, data, op, did, val, seq, todo, results,
                   exc, wake, ncmds, npolls, lastWrite>>

\* the answer of that POST arrives; on success set_filter indexes the cache
\* with the status object, which is unhashable (a dataclass with eq and
\* without frozen), so it ends with TypeError and writes nothing
Post2Done(t, outcome) ==
    /\ pc[t] = "post2"
    /\ ev' = [kind |-> "post", task |-> t, outcome |-> outcome,
               before |-> cache[did[t]]]
    /\ UNCHANGED <<shown, overlap>>
    /\ ret' = NoReturn /\ UNCHANGED <<called, asked, setup>>
    /\ Raise(t, IF PostFails(outcome) THEN outcome ELSE "TypeError")
    /\ UNCHANGED <<now, bindings, cache, data, op, did, val, seq, results, wake,
                   posts, ncmds, npolls, lastWrite>>

\* an entity of device d is rendered: CleverSpaEntity.available is read
ReadEntity(d) ==
    /\ shown' = [shown EXCEPT ![d] = [at |-> now, status |-> DeviceStatus(d),
                                      available |-> Available(d)]]
    /\ ev' = NoEvent
    /\ UNCHANGED <<now, bindings, cache, data, pc, op, did, val, seq, todo, results,
                   exc, wake, posts, ncmds, npolls, lastWrite, overlap, called, asked,
                   setup>>
    /\ ret' = NoReturn

\* ------------------------------------------------------ async_setup_entry
\* the exception a request of get_user_token ends with: raise_for_status
\* reads the error body, drops it and calls response.raise_for_status()
AuthExc(o) ==
    CASE o = "rejected" -> [type |-> "ClientResponseError", message |-> HttpReason]
      [] o = "transport" -> [type |-> "ClientConnectionError", message |-> ""]
      [] o = "timeout" -> [type |-> "TimeoutError", message |-> ""]

\* (variant: a token is requested whatever the config entry holds)
NeedsTokenAlways(stored) == TRUE

\* `if user_token:` on the value read from the config entry
NeedsToken(stored) == stored = NoToken

\* the client and the coordinator are created over the token and
\* async_config_entry_first_refresh awaits the bindings of the first tick
FirstRefresh(su) ==
    /\ setup' = [su EXCEPT !.pc = "first_refresh",
                            !.trail = su.trail \o <<"CleverSpaApi",
                                                    "CleverSpaUpdateCoordinator">>]
    /\ npolls' = npolls + 1
    /\ pc' = [pc EXCEPT ![Poller] = "refresh"]

\* setup ends with ConfigEntryNotReady raised from exception e
NotReady(e) ==
    /\ setup' = [setup EXCEPT !.pc = "not_ready", !.cause = e]
    /\ UNCHANGED <<pc, npolls>>

\* async_setup_entry is called
SetupEntry ==
    /\ setup.pc = "entry"
    /\ IF NeedsToken(setup.stored)
       THEN /\ setup' = [setup EXCEPT !.pc = "auth",
                                      !.trail = Append(setup.trail, "get_user_token")]
            /\ UNCHANGED <<pc, npolls>>
       ELSE FirstRefresh(setup)
    /\ ev' = NoEvent /\ ret' = NoReturn
    /\ UNCHANGED <<now, bindings, cache, data, op, did, val, seq, todo, results,
                   exc, wake, posts, ncmds, lastWrite, shown, overlap, called, asked>>

\* get_user_token: the answer of the credential exchange arrives; on success
\* the user record is requested
AuthDone(o) ==
    /\ setup.pc = "auth"
    /\ ev' = [kind |-> "auth", outcome |-> o]
    /\ IF o = "ok"
       THEN setup' = [setup EXCEPT !.pc = "info"]
       ELSE setup' = [setup EXCEPT !.pc = "not_ready", !.cause = AuthExc(o)]
    /\ ret' = NoReturn
    /\ UNCHANGED <<now, bindings, cache, data, pc, op, did, val, seq, todo, results,
                   exc, wake, posts, ncmds, npolls, lastWrite, shown, overlap,
                   called, asked>>

\* get_user_token: the user record arrives; the token is returned, written
\* to the config entry, and the client is built
InfoDone(o) ==
    /\ setup.pc = "info"
    /\ ev' = [kind |-> "info", outcome |-> o]
    /\ IF o = "ok"
       THEN FirstRefresh([setup EXCEPT !.stored = Token,
                                       !.trail = Append(setup.trail, "async_update_entry")])
       ELSE NotReady(AuthExc(o))
    /\ ret' = NoReturn
    /\ UNCHANGED <<now, bindings, cache, data, op, did, val, seq, todo, results,
                   exc, wake, posts, ncmds, lastWrite, shown, overlap, called, asked>>

\* the first tick is over: a failed one ends setup with ConfigEntryNotReady,
\* otherwise the coordinator is registered and the platforms are set up
SetupRefreshed ==
    /\ setup.pc = "first_refresh"
    /\ pc[Poller] = "idle"
    /\ IF exc[Poller] # "none"
       THEN NotReady([type |-> exc[Poller], message |-> ""])
       ELSE /\ setup' = [setup EXCEPT !.pc = "ready",
                                      !.trail = Append(setup.trail, "hass.data")]
            /\ UNCHANGED <<pc, npolls>>
    /\ ev' = NoEvent /\ ret' = NoReturn
    /\ UNCHANGED <<now, bindings, cache, data, op, did, val, seq, todo, results,
                   exc, wake, posts, ncmds, lastWrite, shown, overlap, called, asked>>

\* one spa on the account, the poller and one command
Next ==
    \/ \E t \in EarlyClock \cup CoolClock : Tick(t)
    \/ PollStart
    \/ \E outcome \in Outcomes, list \in SoloLists : RefreshDone(outcome, list)
    \/ \E t \in {Poller, "c1"}, outcome \in Outcomes, r \in Responses : FetchStep(t, outcome, r)
    \/ \E o \in Ops : \E v \in ArgsOf(o) : CmdStart("c1", o, "d1", v)
    \/ \E outcome \in Outcomes : PostDone("c1", outcome)
    \/ Wake("c1")
    \/ \E outcome \in Outcomes : Post2Done("c1", outcome)

Spec == Init /\ [][Next]_vars

\* the cooldown race: one spa, polled, and two overlapping set_heat calls
CoolResponses == {r \in Responses : r.updated_at = 0}
NextCool ==
    \/ \E t \in {1} \cup CoolClock : Tick(t)
    \/ PollStart
    \/ RefreshDone("ok", <<"d1">>)
    \/ \E t \in Tasks, r \in CoolResponses : FetchStep(t, "ok", r)
    \/ \E t \in CmdTasks, v \in BOOLEAN : CmdStart(t, "heat", "d1", v)
    \/ \E t \in CmdTasks, outcome \in {"ok", "error"} : PostDone(t, outcome)
    \/ \E t \in CmdTasks : Wake(t)
    \/ \E t \in CmdTasks, outcome \in {"ok", "error"} : Post2Done(t, outcome)

SpecCool == Init /\ [][NextCool]_vars

\* availability of the entities of two polled spas as their statuses age
OnlineClock == {Secs(_CONNECTIVITY_TIMEOUT - 1), Secs(_CONNECTIVITY_TIMEOUT - 1) + 1,
                Secs(_CONNECTIVITY_TIMEOUT), Secs(_CONNECTIVITY_TIMEOUT + 1)}
OnlineResponses == {r \in Responses : r.attr.Filter = 0}
NextOnline ==
    \/ \E t \in OnlineClock : Tick(t)
    \/ PollStart
    \/ \E outcome \in Outcomes : RefreshDone(outcome, <<"d1", "d2">>)
    \/ \E outcome \in Outcomes, r \in OnlineResponses : FetchStep(Poller, outcome, r)
    \/ \E d \in Devices : ReadEntity(d)

SpecOnline == Init /\ [][NextOnline]_vars

\* two spas that come and go on the account, polled, and one set_target_temp
MultiResponses == {r \in Responses : r.updated_at \in {0, 1} /\ r.attr.Heater = 0}
NextMulti ==
    \/ PollStart
    \/ \E outcome \in Outcomes, list \in MultiLists : RefreshDone(outcome, list)
    \/ \E t \in {Poller, "c1"}, outcome \in Outcomes, r \in MultiResponses :
            FetchStep(t, outcome, r)
    \/ \E d \in Devices : CmdStart("c1", "temp", d, 35)
    \/ \E outcome \in {"ok", "error"} : PostDone("c1", outcome)

SpecMulti == Init /\ [][NextMulti]_vars

\* setting up a config entry, with or without a stored token, and the ticks
\* of its coordinator over an account with at most one spa
NextSetup ==
    \/ SetupEntry
    \/ \E o \in AuthOutcomes : AuthDone(o)
    \/ \E o \in AuthOutcomes : InfoDone(o)
    \/ SetupRefreshed
    \/ setup.pc = "ready" /\ PollStart
    \/ \E outcome \in Outcomes, list \in SoloLists : RefreshDone(outcome, list)
    \/ \E outcome \in Outcomes, r \in Responses : FetchStep(Poller, outcome, r)

SpecSetup == InitSetup /\ [][NextSetup]_vars

\* one polled spa whose status endpoint answers with any attribute block
NextParse ==
    \/ PollStart
    \/ RefreshDone("ok", <<"d1">>)
    \/ \E r \in WideResponses : FetchStep(Poller, "ok", r)

SpecParse == Init /\ [][NextParse]_vars

\* one spa whose polls race with one set_target_temp
RaceResponses == {r \in Responses : r.attr.Heater = 0 /\ r.attr.Filter = 0}
NextRace ==
    \/ \E t \in EarlyClock : Tick(t)
    \/ PollStart
    \/ RefreshDone("ok", <<"d1">>)
    \/ \E t \in {Poller, "c1"}, r \in RaceResponses : FetchStep(t, "ok", r)
    \/ CmdStart("c1", "temp", "d1", 35)
    \/ \E outcome \in {"ok", "error"} : PostDone("c1", outcome)

SpecRace == Init /\ [][NextRace]_vars

\* set_heat(off) on one polled spa when every remote call succeeds.  The
\* clock advances, every awaited answer arrives and the loop resumes the
\* coroutine that waits for it: the steps of the command are weakly fair.
HeatOffClock == {1} \cup CoolClock \cup {wake["c1"]}
NextHeatOff ==
    \/ \E t \in HeatOffClock : Tick(t)
    \/ PollStart
    \/ RefreshDone("ok", <<"d1">>)
    \/ \E t \in {Poller, "c1"}, r \in CoolResponses : FetchStep(t, "ok", r)
    \/ CmdStart("c1", "heat", "d1", FALSE)
    \/ PostDone("c1", "ok")
    \/ Wake("c1")
    \/ Post2Done("c1", "ok")

FairHeatOff ==
    /\ WF_vars(\E t \in HeatOffClock : Tick(t))
    /\ WF_vars(PostDone("c1", "ok"))
    /\ WF_vars(\E r \in CoolResponses : FetchStep("c1", "ok", r))
    /\ WF_vars(Wake("c1"))
    /\ WF_vars(Post2Done("c1", "ok"))

SpecHeatOff == Init /\ [][NextHeatOff]_vars /\ FairHeatOff

\* ------------------------------------------------------------- claims
\* the status a reference written by the step just taken refers to afterwards
ReportStatus(e) == IF e.report.live THEN cache[e.did] ELSE e.report.status

C2_NeverRegresses ==
    [][(ev'.kind = "status" /\ cache[ev'.did] # None
        /\ ev'.resp.updated_at < cache[ev'.did].timestamp) =>
          /\ cache'[ev'.did] = cache[ev'.did]
          /\ ReportStatus(ev)' = cache[ev'.did]]_vars

\* an older response carrying other values has been handled
C2_Witness ==
    /\ ev.kind = "status"
    /\ ev.resp.updated_at < ev.local
    /\ cache[ev.did].timestamp = ev.local
    /\ ParseStatus(ev.resp).temp_set # cache[ev.did].temp_set
    /\ ParseStatus(ev.resp).heat_power # cache[ev.did].heat_power

\* C3: after set_target_temp(d, v) wrote the cache, a fetch whose response for
\* d is older than the timestamp the command wrote still reports temp_set = v.
C3_CommandThenStaleFetch ==
    [][(ev'.kind = "status" /\ lastWrite[ev'.did].op = "temp"
        /\ ev'.resp.updated_at < cache[ev'.did].timestamp) =>
          ReportStatus(ev)'.temp_set = lastWrite[ev'.did].val]_vars

\* the follow-up fetch of set_target_temp got a stale response with another
\* set point
C3_Witness ==
    /\ ev.kind = "status"
    /\ ev.task \in CmdTasks
    /\ op[ev.task] = "temp"
    /\ ev.over = "temp"
    /\ lastWrite[ev.did].op = "temp"
    /\ ev.resp.updated_at < ev.local
    /\ ev.resp.attr.Temperature_setup # lastWrite[ev.did].val
    /\ cache[ev.did].temp_set = val[ev.task]

\* C4: once a command wrote the entry at time T, no response with
\* updated_at <= T replaces it.
C4_NotReplacedUntilNewer ==
    [][(ev'.kind = "status" /\ lastWrite[ev'.did].op \in Ops
        /\ ev'.resp.updated_at <= cache[ev'.did].timestamp) =>
          cache'[ev'.did] = cache[ev'.did]]_vars

C6_Idempotent ==
    [][(ev.kind = "status" /\ ev'.kind = "status" /\ ev'.did = ev.did
        /\ ev'.resp = ev.resp) =>
          /\ cache'[ev.did] = cache[ev.did]
          /\ ReportStatus(ev)' = ReportStatus(ev)]_vars

\* the same response has been handled twice in succession, by two calls
C6_Witness ==
    /\ ev.kind = "status"
    /\ ev.again
    /\ cache[ev.did] = ParseStatus(ev.resp)

\* set_heat(off) of task t has ended after its follow-up fetch returned
HeatOffEnded(t) ==
    /\ op[t] = "heat" /\ val[t] = FALSE
    /\ wake[t] > 0
    /\ pc[t] \in {"done", "raised"}
    /\ exc[t] \in {"none", "TypeError"}

FilterOffs(t, target) ==
    {i \in 1..Len(posts) : /\ posts[i].by = seq[t] /\ posts[i].attr = "Filter"
                           /\ posts[i].val = 0 /\ posts[i].target = target}

HeatPosts(t) ==
    {i \in 1..Len(posts) : posts[i].by = seq[t] /\ posts[i].attr = "Heater"}

\* C7: a set_heat(d, off) whose heater-off POST succeeded issues exactly one
\* filter-off command to the control endpoint of d, no earlier than 30
\* seconds after the heater-off command; set_heat(d, on) issues none.
C7_CooldownFilterOff ==
    \A t \in CmdTasks :
        /\ HeatOffEnded(t) =>
             /\ Cardinality(FilterOffs(t, did[t])) = 1
             /\ \A i \in FilterOffs(t, did[t]), j \in HeatPosts(t) :
                    posts[i].at >= posts[j].at + Secs(COOLDOWN_SLEEP)
        /\ (op[t] = "heat" /\ val[t] = TRUE) =>
             \A i \in 1..Len(posts) : posts[i].by = seq[t] => posts[i].attr # "Filter"

\* a later set_heat(d, on) of another task returned before the sleep of t ended
HeatOnDuringCooldown(t) ==
    \E u \in CmdTasks \ {t} :
        /\ op[u] = "heat" /\ val[u] = TRUE /\ did[u] = did[t]
        /\ seq[u] > seq[t]
        /\ pc[u] = "done"
        /\ overlap[u]

\* C8: when set_heat(d, on) completes inside the cooldown window of an earlier
\* set_heat(d, off), the pending shutdown still fires and stops the filter:
\* the cache then shows filter_power and heat_power false.
C8_PendingShutdownStopsFilter ==
    [][\A t \in CmdTasks :
        (pc[t] = "post2" /\ pc'[t] # "post2" /\ ev'.outcome = "ok"
         /\ HeatOnDuringCooldown(t)) =>
           /\ cache'[did[t]].filter_power = FALSE
           /\ cache'[did[t]].heat_power = FALSE]_vars

\* C9: a status is online iff it is less than 1000 seconds old, and an
\* entity is available only when its device has a report whose status is
\* online.
C9_OnlineWindow ==
    \A d \in Devices :
        shown[d] # None =>
            shown[d].available =
                (/\ shown[d].status # None
                 /\ shown[d].at - Secs(shown[d].status.timestamp)
                        < Secs(_CONNECTIVITY_TIMEOUT))

\* at one instant a status exactly 1000 seconds old is shown unavailable and
\* one 999 seconds old available
C9_Witness ==
    /\ shown["d1"] # None /\ shown["d2"] # None
    /\ shown["d1"].status # None /\ shown["d2"].status # None
    /\ shown["d1"].at = shown["d2"].at
    /\ shown["d1"].at - Secs(shown["d1"].status.timestamp) = Secs(_CONNECTIVITY_TIMEOUT)
    /\ ~shown["d1"].available
    /\ shown["d2"].at - Secs(shown["d2"].status.timestamp) = Secs(_CONNECTIVITY_TIMEOUT - 1)
    /\ shown["d2"].available

\* C10: a command issues its POST before it touches the cache; when the POST
\* times out or is answered with an error the command fails, sends nothing
\* again, leaves the cache as it was and starts no fetch.
C10_FailedPostLeavesCache ==
    [][/\ \A t \in CmdTasks :
            (pc[t] = "idle" /\ pc'[t] # "idle") =>
                /\ Len(posts') = Len(posts) + 1
                /\ cache' = cache
       /\ (ev'.kind = "post" /\ ev'.outcome # "ok") =>
            /\ cache' = cache
            /\ posts' = posts
            /\ pc'[ev'.task] = "raised"
            /\ todo'[ev'.task] = <<>>
            /\ data' = data]_vars

\* the POST of a command on a cached device timed out
C10_Witness ==
    /\ ev.kind = "post"
    /\ ev.outcome = "timeout"
    /\ pc[ev.task] = "raised"
    /\ cache[did[ev.task]] # None
    /\ op[ev.task] = "bubbles"

\* C11: a successful set_filter(d, off) leaves in the cache timestamp = the
\* time of the command and filter_power, bubble_power and heat_power false,
\* and starts no fetch.
C11_FilterOffForcesBubblesOff ==
    [][\A t \in CmdTasks :
        (pc[t] = "post" /\ op[t] = "filter" /\ val[t] = FALSE
         /\ ev'.kind = "post" /\ ev'.task = t /\ ev'.outcome = "ok"
         /\ cache[did[t]] # None) =>
           /\ cache'[did[t]].timestamp = IntTime(now)
           /\ cache'[did[t]].filter_power = FALSE
           /\ cache'[did[t]].bubble_power = FALSE
           /\ cache'[did[t]].heat_power = FALSE
           /\ pc'[t] = "done"
           /\ called'[t] = None /\ ret' = NoReturn]_vars

\* C12: after set_bubbles(d, b) succeeded and its follow-up fetch got a
\* response older than the entry, the report of d has bubble_power = b, the
\* value the bubbles switch shows.
C12_BubblesShown ==
    [][\A t \in CmdTasks :
        (ev'.kind = "status" /\ ev'.task = t /\ op[t] = "bubbles"
         /\ ev'.did = did[t]
         /\ lastWrite[did[t]] = [op |-> "bubbles", val |-> val[t]]
         /\ ev'.resp.updated_at < cache[did[t]].timestamp) =>
           ReportStatus(ev)'.bubble_power = val[t]]_vars

\* C13: a successful set_heat(d, on) or set_bubbles(d, on) leaves in the
\* cache timestamp = the time of the command and filter_power true (and
\* heat_power true for set_heat), and fetch_data is called at once.
C13_HeatOrBubblesMarkFilter ==
    [][\A t \in CmdTasks :
        (pc[t] = "post" /\ op[t] \in {"heat", "bubbles"} /\ val[t] = TRUE
         /\ ev'.kind = "post" /\ ev'.task = t /\ ev'.outcome = "ok"
         /\ cache[did[t]] # None) =>
           /\ cache'[did[t]].timestamp = IntTime(now)
           /\ cache'[did[t]].filter_power = TRUE
           /\ (op[t] = "heat" => cache'[did[t]].heat_power = TRUE)
           /\ \/ ret' # NoReturn /\ ret'.task = t /\ ret'.registry = bindings
              \/ /\ pc'[t] = "get"
                 /\ called'[t] = bindings
                 /\ todo'[t] = bindings.devs]_vars

\* set_bubbles(d, on) has just marked a stopped filter as running and awaits
\* the first answer of its fetch
C13_Witness ==
    /\ ev.kind = "post" /\ ev.outcome = "ok"
    /\ op[ev.task] = "bubbles" /\ val[ev.task] = TRUE
    /\ ev.before # None
    /\ ev.before.filter_power = FALSE
    /\ cache[did[ev.task]].filter_power = TRUE
    /\ cache[did[ev.task]].timestamp = IntTime(now)
    /\ cache[did[ev.task]].timestamp > ev.before.timestamp
    /\ pc[ev.task] = "get"

\* C14: the mapping a fetch_data call returns has exactly the keys of the
\* registry as it was when the call was made.  With a missing or empty
\* registry the call returns the empty mapping in the very step of the call,
\* without a request and without an error; every status request is for a
\* device of that registry, so a device dropped by a refresh is neither
\* requested nor reported although its cache entry stays.
C14_KeysAreRegistryKeys ==
    [][/\ \A t \in Tasks :
            (pc[t] # "get" /\ pc'[t] = "get") => called'[t] = bindings'
       /\ \A t \in Tasks :
            pc'[t] = "get" =>
                /\ todo'[t] # <<>>
                /\ Head(todo'[t]) \in Registered(called'[t])
       /\ ev'.kind \in {"status", "get"} =>
            ev'.did \in Registered(called[ev'.task])
       /\ ret' # NoReturn =>
            /\ ret'.keys = Registered(ret'.registry)
            /\ exc'[ret'.task] = "none"
            /\ pc[ret'.task] # "get" =>
                 /\ ret'.registry = bindings'
                 /\ Registered(bindings') = {}
            /\ (ret'.task = Poller) =>
                 {d \in Devices : data'.reports[d] # None} = ret'.keys]_vars

\* a poll returned a report for d1 only, after d2 was dropped from the
\* account; the cache entry of d2 is still there
C14_Witness ==
    /\ ret # NoReturn
    /\ ret.task = Poller
    /\ ret.registry = Bound(<<"d1">>)
    /\ ret.keys = {"d1"}
    /\ data.reports["d2"] = None
    /\ cache["d2"] # None

\* C15: a successful refresh_bindings makes the registry exactly the devices
\* of the response, whatever it was before; a failed one leaves the registry
\* as it was; neither touches the local state cache.
C15_RefreshReplacesRegistry ==
    [][ev'.kind = "bindings" =>
        /\ (ev'.outcome = "ok" => bindings' = [devs |-> ev'.list])
        /\ (ev'.outcome # "ok" => bindings' = bindings)
        /\ cache' = cache]_vars

\* a refresh answered with d1 only replaced a registry that held d2
C15_Witness ==
    /\ ev.kind = "bindings" /\ ev.outcome = "ok"
    /\ ev.list = <<"d1">>
    /\ bindings = Bound(<<"d1">>)
    /\ cache["d2"] # None
    /\ cache["d1"] = None

\* C16: a polling tick awaits refresh_bindings first and calls fetch_data
\* only in the step in which the bindings answer arrived well; when the
\* bindings request or a status request fails or times out the tick ends
\* with UpdateFailed, calls nothing more and leaves the coordinator's
\* mapping as it was.
C16_TickFailsAsUpdateFailed ==
    [][/\ (pc[Poller] = "idle" /\ pc'[Poller] # "idle") => pc'[Poller] = "refresh"
       /\ ((pc[Poller] # "get" /\ pc'[Poller] = "get")
           \/ (ret' # NoReturn /\ ret'.task = Poller /\ pc[Poller] # "get")) =>
            /\ pc[Poller] = "refresh"
            /\ ev'.kind = "bindings" /\ ev'.outcome = "ok"
       /\ ((ev'.kind = "bindings"
            \/ (ev'.kind \in {"get", "status"} /\ ev'.task = Poller))
           /\ ev'.outcome # "ok") =>
            /\ exc'[Poller] = "UpdateFailed"
            /\ pc'[Poller] = "idle"
            /\ called'[Poller] = None
            /\ ret' = NoReturn
            /\ data' = data]_vars

\* the second tick timed out on a status request; the mapping of the first
\* tick is still the coordinator's
C16_Witness ==
    /\ ev.kind = "get" /\ ev.task = Poller /\ ev.outcome = "timeout"
    /\ exc[Poller] = "UpdateFailed"
    /\ npolls = 2
    /\ data # None
    /\ data.reports["d1"] # None

\* C17: when the status request of one bound device fails, fetch_data ends
\* with the exception: no mapping is returned, not even for the devices
\* already handled in the call, and no further device is requested.
C17_OneFailureAbortsBatch ==
    [][(ev'.kind \in {"get", "status"} /\ ev'.outcome # "ok") =>
        /\ exc'[ev'.task] # "none"
        /\ pc'[ev'.task] \in {"idle", "raised"}
        /\ todo'[ev'.task] = <<>>
        /\ results'[ev'.task] = NoResults
        /\ ret' = NoReturn
        /\ data' = data]_vars

\* the first poll handled d1 and then failed on d2: nothing was returned
C17_Witness ==
    /\ ev.kind = "get" /\ ev.task = Poller /\ ev.did = "d2"
    /\ bindings = Bound(<<"d1", "d2">>)
    /\ npolls = 1
    /\ cache["d1"] # None
    /\ data = None
    /\ pc[Poller] = "idle"

\* C18: when the identity endpoint answers the credential exchange with a
\* non-success status and an error body, get_user_token ends with an
\* AuthError carrying the provider's message and returns no token, and the
\* exception differs from the one of a timeout or a transport failure.
C18_RejectionIsAuthError ==
    [][(ev'.kind = "auth" /\ ev'.outcome = "rejected") =>
        /\ setup'.cause.type = "AuthError"
        /\ setup'.cause.message = ProviderMessage
        /\ setup'.stored = NoToken
        /\ setup'.cause.type \notin {AuthExc("timeout").type,
                                     AuthExc("transport").type}]_vars

\* what async_setup_entry has done so far
Did(x) == {i \in 1..Len(setup.trail) : setup.trail[i] = x}

\* C19: setup over a stored token never calls get_user_token; setup without
\* one calls it exactly once and writes the token and its expiry to the
\* config entry before it creates the client; when the authentication fails
\* setup ends as not ready, without a second call and without a client or a
\* registered coordinator.
C19_SetupAuthenticatesOnce ==
    /\ setup.had => Did("get_user_token") = {}
    /\ (~setup.had /\ setup.pc # "entry") => Cardinality(Did("get_user_token")) = 1
    /\ (~setup.had /\ Did("CleverSpaApi") # {}) =>
          /\ setup.stored = Token
          /\ \A i \in Did("async_update_entry"), j \in Did("CleverSpaApi") : i < j
          /\ Cardinality(Did("async_update_entry")) = 1
    /\ (setup.pc # "ready") => Did("hass.data") = {}
    /\ (setup.cause.type \in {AuthExc(o).type : o \in AuthOutcomes \ {"ok"}}) =>
          /\ setup.pc = "not_ready"
          /\ setup.stored = NoToken
          /\ setup.trail = <<"get_user_token">>
          /\ pc[Poller] = "idle" /\ npolls = 0

\* a setup without a stored token has authenticated, stored the token and
\* become ready
C19_Witness ==
    /\ ~setup.had
    /\ setup.pc = "ready"
    /\ setup.stored = Token
    /\ setup.trail = <<"get_user_token", "async_update_entry", "CleverSpaApi",
                       "CleverSpaUpdateCoordinator", "hass.data">>
    /\ data # None

\* C20: an accepted response is copied into the status field by field:
\* timestamp = updated_at, temp_now = Current_temperature, temp_set =
\* Temperature_setup, each of heat_power, filter_power and bubble_power true
\* exactly when Heater, Filter or Bubble is 1, the unit CELSIUS and the list
\* of errors empty.
C20_FieldMapping ==
    [][(ev'.kind = "status" /\ ev'.resp.updated_at >= ev'.local) =>
        LET r == ev'.resp
            st == cache'[ev'.did]
        IN /\ st.timestamp = r.updated_at
           /\ st.temp_now = r.attr.Current_temperature
           /\ st.temp_set = r.attr.Temperature_setup
           /\ st.heat_power = (r.attr.Heater = 1)
           /\ st.filter_power = (r.attr.Filter = 1)
           /\ st.bubble_power = (r.attr.Bubble = 1)
           /\ st.temp_set_unit = "CELSIUS"
           /\ st.errors = <<>>
           /\ ReportStatus(ev)' = st]_vars

\* a response with Heater = 2, Bubble = 1 and Filter = 0 has replaced an
\* entry: the heater and the filter show off, the bubbles on
C20_Witness ==
    /\ ev.kind = "status"
    /\ ev.resp.updated_at = 1 /\ ev.local = 1
    /\ ev.resp.attr.Heater = 2 /\ ev.resp.attr.Bubble = 1 /\ ev.resp.attr.Filter = 0
    /\ ev.resp.attr.Current_temperature = 29
    /\ ev.resp.attr.Temperature_setup = 35
    /\ cache[ev.did].heat_power = FALSE
    /\ cache[ev.did].bubble_power = TRUE
    /\ cache[ev.did].filter_power = FALSE
    /\ cache[ev.did].temp_now = 29 /\ cache[ev.did].temp_set = 35

\* C21: the timestamp of a cache entry never decreases, whatever fetches and
\* commands follow, also when the entry came from a server whose updated_at
\* is ahead of the local clock at the moment a command writes its timestamp.
C21_TimestampNeverDecreases ==
    [][\A d \in Devices :
        cache[d] # None =>
            /\ cache'[d] # None
            /\ cache'[d].timestamp >= cache[d].timestamp]_vars

\* C24: a status response is compared with the cached timestamp as it is
\* when the response is handled, and the comparison, the cache write and
\* the report are made in that one step; so a response asked for before a
\* command and handled after it is dropped when it is older than the
\* timestamp the command wrote.
C24_ComparedWhenProcessed ==
    [][ev'.kind = "status" =>
        LET t == ev'.task
            d == ev'.did
            r == ev'.resp
        IN /\ ev'.local = LocalTimestamp(cache[d])
           /\ cache'[d] = IF r.updated_at >= LocalTimestamp(cache[d])
                          THEN ParseStatus(r) ELSE cache[d]
           /\ ReportStatus(ev)' = cache'[d]
           /\ \A u \in CmdTasks :
                (WroteSinceAsked(u, t, d) /\ r.updated_at < cache[d].timestamp) =>
                    /\ cache'[d] = cache[d]
                    /\ cache'[d].temp_set = val[u]]_vars

\* the poll asked for the status before set_target_temp was invoked and
\* handled the answer, older than the command's timestamp, after the
\* command had written: the set point of the command is still cached
C24_Witness ==
    /\ ev.kind = "status" /\ ev.task = Poller
    /\ ev.over = "temp"
    /\ ev.raced
    /\ pc["c1"] = "get"
    /\ ev.resp.updated_at < ev.local
    /\ ev.resp.attr.Temperature_setup # val["c1"]
    /\ cache[ev.did].temp_set = val["c1"]
    /\ cache[ev.did].timestamp = ev.local

\* C27: the field values seen through a report the coordinator holds are
\* not changed by a control command executed after the report was returned.
C27_ReportIsSnapshot ==
    [][ev'.kind = "post" =>
        \A d \in Devices :
            (data # None /\ data.reports[d] # None) =>
                DeviceStatus(d)' = DeviceStatus(d)]_vars

\* C22: when every remote call succeeds, a set_heat(d, off) that has written
\* the entry of a cached device eventually returns without an exception,
\* and the entry then has heat_power and filter_power false.
C22_HeatOffTerminates ==
    (pc["c1"] = "get" /\ op["c1"] = "heat" /\ val["c1"] = FALSE) ~>
        (/\ pc["c1"] = "done"
         /\ exc["c1"] = "none"
         /\ cache["d1"].heat_power = FALSE
         /\ cache["d1"].filter_power = FALSE)

\* C23: a cache entry, once there, is there in every later state; an entry
\* appears only in the step that handles an accepted status response for
\* its device, every handled response leaves an entry, and a command never
\* creates the entry of a device that has none.
C23_EntriesOnlyFromFetch ==
    [][\A d \in Devices :
        /\ cache[d] # None => cache'[d] # None
        /\ (cache[d] = None /\ cache'[d] # None) =>
              /\ ev'.kind = "status" /\ ev'.did = d
              /\ ev'.resp.updated_at >= 0
              /\ cache'[d] = ParseStatus(ev'.resp)
        /\ (ev'.kind = "status" /\ ev'.did = d) => cache'[d] # None
        /\ (ev'.kind = "post" /\ cache[d] = None) => cache'[d] = None]_vars

\* d2 left the account and kept its entry; a command on d1, bound but never
\* fetched, ended without creating one
C23_Witness ==
    /\ ev.kind = "post" /\ ev.outcome = "ok"
    /\ did["c1"] = "d1" /\ exc["c1"] = "KeyError"
    /\ cache["d1"] = None
    /\ cache["d2"] # None
    /\ bindings = Bound(<<"d1">>)

\* C25: when fetch_data ends on the failed request of a device, the entries
\* it overwrote for the devices handled before stay as written, although
\* nothing is returned for them.
C25_NoRollbackOnAbort ==
    [][(ev'.kind = "get" /\ ev'.outcome # "ok") =>
        /\ cache' = cache
        /\ ret' = NoReturn
        /\ (ev.kind = "status" /\ ev.task = ev'.task
            /\ ev.resp.updated_at >= ev.local) =>
              cache'[ev.did] = ParseStatus(ev.resp)]_vars

\* the second poll stored a newer status of d1 and then failed on d2: the
\* cache has the new status, the coordinator's report still the old one
C25_Witness ==
    /\ ev.kind = "get" /\ ev.task = Poller /\ ev.did = "d2"
    /\ npolls = 2
    /\ exc[Poller] = "UpdateFailed"
    /\ cache["d1"] # None /\ cache["d1"].timestamp = 1
    /\ data # None
    /\ data.reports["d1"] # None
    /\ ~data.reports["d1"].live
    /\ data.reports["d1"].status.timestamp = 0

\* C26: a command for a device without a cache entry sends its POST all the
\* same and, when the POST is answered well, ends with an exception: no
\* entry is created and no fetch is started.
C26_UncachedCommandFails ==
    [][/\ \A t \in CmdTasks :
            (pc[t] = "idle" /\ pc'[t] # "idle") =>
                /\ pc'[t] = "post"
                /\ Len(posts') = Len(posts) + 1
                /\ posts'[Len(posts')].target = did'[t]
       /\ (ev'.kind = "post" /\ ev'.outcome = "ok" /\ pc[ev'.task] = "post"
           /\ cache[did[ev'.task]] = None) =>
            /\ pc'[ev'.task] = "raised"
            /\ exc'[ev'.task] = "KeyError"
            /\ cache' = cache
            /\ todo'[ev'.task] = <<>>
            /\ called'[ev'.task] = None
            /\ ret' = NoReturn
            /\ posts' = posts]_vars

\* set_heat(d1, on) on a device never fetched: the POST was sent and answered
\* well, the command ended with KeyError
C26_Witness ==
    /\ ev.kind = "post" /\ ev.outcome = "ok" /\ ev.before = None
    /\ op[ev.task] = "heat" /\ val[ev.task] = TRUE
    /\ pc[ev.task] = "raised" /\ exc[ev.task] = "KeyError"
    /\ cache[did[ev.task]] = None
    /\ \E i \in 1..Len(posts) : posts[i].by = seq[ev.task] /\ posts[i].attr = "Heater"

====
